---- MODULE Spec2Model ----
(***************************************************************************)
(* PowerWalk: the per-vertex functor set (vertex_functor_set.hpp) and the  *)
(* multi-source PPR flow-decomposition programs (apps/ms-ppr/query-flow).  *)
(*                                                                         *)
(* Part I models the functor set with every call as a sequence of steps    *)
(* (enter; take the spinlock and read is_set; write, unlock, return) that   *)
(* interleave freely between threads.                                      *)
(* Part II models a run of the decomposition programs, round by round,     *)
(* with the functor set's slots holding the messages between rounds.       *)
(* Weights are exact numbers: float rounding is not modelled.              *)
(***************************************************************************)
EXTENDS Integers, FiniteSets, Sequences, TLC

\* ------------------------------------------------------------------ bounds
NumThreads == 2      \* worker threads calling into the functor set
NumSlots == 2        \* vertices the set is constructed with
NumKeys == 1         \* keys a payload (sparse map) may hold
MaxCalls == 3        \* calls issued in one behaviour
NumVertices == 3     \* vertices of the graphs the programs run on
MaxNiters == 2       \* largest --niters option
MaxTopk == 3         \* largest --topk option
MaxWeight == 3       \* weights of the ppr vectors handed to the writer: 1..MaxWeight

Threads == 1..NumThreads
Keys == 0..(NumKeys - 1)
NoThread == 0

\* ------------------------------------------------- sparse weighted map (vec_type)
Empty == << >>

\* val[k], reading an absent key as 0 (flat_map::operator[] value-initialises)
At(m, k) == IF k \in DOMAIN m THEN m[k] ELSE 0

\* vec_type::operator+= : for every entry of other, val[key] += weight
MergeAssign(a, b) == [k \in (DOMAIN a) \cup (DOMAIN b) |-> IF k \in DOMAIN b THEN b[k] ELSE a[k]]
Merge(a, b) == [k \in (DOMAIN a) \cup (DOMAIN b) |-> At(a, k) + At(b, k)]

\* vec_type::empty
IsEmpty(m) == DOMAIN m = {}

\* update_functor_type::priority(): an algorithm-defined magnitude of the payload
RECURSIVE SumOver(_, _)
SumOver(m, D) == IF D = {} THEN 0
                 ELSE LET k == CHOOSE x \in D : TRUE IN m[k] + SumOver(m, D \ {k})
Priority(m) == SumOver(m, DOMAIN m)

\* payloads the callers pass in: empty, or a unit weight on one key
InPayloads == {Empty} \cup {[d \in {k} |-> 1] : k \in Keys}

VARIABLES
  vfun_size,   \* vfun_set.size()
  is_set,      \* vfun_type::is_set, per slot
  functor,     \* vfun_type::functor, per slot
  lock,        \* vfun_type::lock, per slot: the holding thread or NoThread
  pc,          \* per thread: the statement it is at
  op,          \* per thread: the member function it is in
  vid,         \* per thread: the slot it works on
  other,       \* per thread: set()'s argument
  ret,         \* per thread: test_and_get()'s output argument / get()'s local ret
  flag,        \* per thread: already_set / success / was_set
  aborted,     \* an ASSERT_* failed: the process is gone
  returned,    \* the call that returned in the last step, with what it returned
  calls,       \* calls issued so far
  touched,     \* slots 0..touched-1 have been the target of a call
  \* history variables (no effect on the program)
  win,         \* per slot: the adds issued since the slot was last quiet and not pending
  tgClean,     \* per thread: this test_and_get was issued after all adds returned, alone
  addedTotal,  \* per slot: merge of the payloads of all completed add calls
  gotTotal,    \* per slot: merge of the payloads returned by successful test_and_get calls
  lockedSet,   \* per thread: is_set of its slot at the instant it took the lock
  lockedEff,   \* per thread: effects of its slot at the instant it took the lock
  lockedCyc,   \* per thread: cycAdds of its slot at the instant it took the lock
  retIn,       \* per thread: the output argument as the caller passed it
  effects,     \* per slot: adds that took effect since the slot was created or last consumed
  cycAdds,     \* per slot: adds that took effect since the last consumption or resize
  cycFirsts,   \* per slot: those among cycAdds that return true
  \* the run of the vertex programs (part II)
  edges,       \* the graph: a set of <<source, target>>
  sources,     \* the global `sources`: NoSources (NULL) or SourceSet(ids)
  threshold,   \* the global `threshold`
  niters,      \* the global `niters`, after main's ++niters
  iteration,   \* context.iteration()
  rphase,      \* the engine: "off", "gas" (init/gather/apply), "scatter", "stopped"
  stage,       \* per vertex, in this round: "wait", "inited", "applied"
  prog_flow,   \* per vertex: DecompositionProgram::flow
  ppr,         \* per vertex: VertexData::ppr
  vflow,       \* per vertex: VertexData::flow
  residual,    \* per vertex: VertexData::residual
  scattered,   \* the out-edges scatter() has been called on in this round
  \* the collect pass and the writer
  no_index,    \* the global `no_index`
  cppr,        \* per vertex: CollectProgram::ppr
  transformed, \* the vertices collect_results has been called on
  sig_log,     \* the signals the last collect_results call made
  topk,        \* pagerank_writer::topk
  strm,        \* per vertex: the string save_vertex returned
  written      \* the vertices save_vertex has been called on

accVars == <<vfun_size, is_set, functor, lock>>
locVars == <<op, vid, other, ret, flag>>
ctlVars == <<aborted, calls, touched>>
winVars == <<win, tgClean>>
ledgerVars == <<addedTotal, gotTotal>>
lockHist == <<lockedSet, lockedEff, lockedCyc, retIn>>
cycVars == <<effects, cycAdds, cycFirsts>>
cfgVars == <<edges, sources, threshold, niters, no_index>>
colVars == <<cppr, transformed, sig_log>>
wrVars == <<topk, strm, written>>
dataVars == <<ppr, vflow, residual>>
runVars == <<cfgVars, iteration, rphase, stage, prog_flow, dataVars, scattered, colVars, wrVars>>
thrVars == <<pc, locVars, ctlVars, returned, winVars, ledgerVars, lockHist, cycVars>>
vars == <<accVars, thrVars, runVars>>

AllSlots == 0..NumSlots
NoCall == [op |-> "none"]
FreshWin == [ok |-> TRUE, n |-> 0, sum |-> Empty, conc |-> FALSE]

\* the object a caller of test_and_get passes as ret_fun holds an older payload
OutArgs == {[k \in {0} |-> 1]}

Vertices == 0..(NumVertices - 1)
\* the global `sources`: a NULL pointer, or the set read from --sources_file
NoSources == [null |-> TRUE, ids |-> {}]
SourceSet(S) == [null |-> FALSE, ids |-> S]

\* no thread is in a call
ThreadsInit ==
  /\ pc = [t \in Threads |-> "idle"]
  /\ op = [t \in Threads |-> "none"]
  /\ vid = [t \in Threads |-> 0]
  /\ other = [t \in Threads |-> Empty]
  /\ ret = [t \in Threads |-> Empty]
  /\ flag = [t \in Threads |-> FALSE]
  /\ aborted = FALSE
  /\ returned = NoCall
  /\ calls = 0
  /\ touched = 0
  /\ win = [v \in AllSlots |-> FreshWin]
  /\ tgClean = [t \in Threads |-> FALSE]
  /\ addedTotal = [v \in AllSlots |-> Empty]
  /\ gotTotal = [v \in AllSlots |-> Empty]
  /\ lockedSet = [t \in Threads |-> FALSE]
  /\ lockedEff = [t \in Threads |-> 0]
  /\ lockedCyc = [t \in Threads |-> 0]
  /\ retIn = [t \in Threads |-> Empty]
  /\ effects = [v \in AllSlots |-> 0]
  /\ cycAdds = [v \in AllSlots |-> 0]
  /\ cycFirsts = [v \in AllSlots |-> 0]

\* collect_results has signalled nothing, no CollectProgram has run
NoSignals == [flow |-> Empty, residual |-> Empty]
CollectOff ==
  /\ cppr = [v \in Vertices |-> Empty]
  /\ transformed = {}
  /\ sig_log = NoSignals

\* nothing is saved
WriterOff ==
  /\ topk = 0
  /\ strm = [v \in Vertices |-> << >>]
  /\ written = {}

\* no vertex program runs
RunOff ==
  /\ edges = {} /\ sources = NoSources /\ threshold = 0 /\ niters = 0
  /\ iteration = 0 /\ rphase = "off"
  /\ stage = [v \in Vertices |-> "wait"]
  /\ prog_flow = [v \in Vertices |-> Empty]
  /\ ppr = [v \in Vertices |-> Empty]
  /\ vflow = [v \in Vertices |-> Empty]
  /\ residual = [v \in Vertices |-> Empty]
  /\ scattered = {}
  /\ no_index = TRUE
  /\ CollectOff
  /\ WriterOff

\* vertex_functor_set(num_vertices): every slot default-constructed, is_set(false)
Init ==
  /\ vfun_size = NumSlots
  /\ is_set = [v \in 0..(NumSlots - 1) |-> FALSE]
  /\ functor = [v \in 0..(NumSlots - 1) |-> Empty]
  /\ lock = [v \in 0..(NumSlots - 1) |-> NoThread]
  /\ ThreadsInit
  /\ RunOff

\* ------------------------------------------------------------ helper views
\* calls in flight on slot v by threads other than t that change or consume it
Busy(v, t) == {u \in Threads \ {t} : pc[u] # "idle" /\ vid[u] = v /\ op[u] # "priority"}

\* the window of slot v as a call by t on v sees it: it restarts whenever the
\* slot is not pending and no call on it is in flight
WinAt(v, t) == IF Busy(v, t) = {} /\ ~is_set[v] THEN FreshWin ELSE win[v]

\* ------------------------------------------------------------ spinlock
\* spinlock::lock(): spins until the slot's own lock is free
CanLock_Global(v) == \A u \in DOMAIN lock : lock[u] = NoThread
CanLock_None(v) == TRUE
CanLock(v) == lock[v] = NoThread

\* lock.lock() by a thread waiting in function o, and the first statement under
\* the lock, which reads is_set
Acquire(t, o) ==
  /\ ~aborted /\ pc[t] = "lock" /\ op[t] = o
  /\ CanLock(vid[t])
  /\ lock' = [lock EXCEPT ![vid[t]] = t]
  /\ lockedSet' = [lockedSet EXCEPT ![t] = is_set[vid[t]]]
  /\ lockedEff' = [lockedEff EXCEPT ![t] = effects[vid[t]]]
  /\ lockedCyc' = [lockedCyc EXCEPT ![t] = cycAdds[vid[t]]]
  /\ returned' = NoCall
  /\ UNCHANGED <<vfun_size, is_set, functor, retIn, op, vid, other, ret, calls, touched,
                 winVars, ledgerVars, cycVars, runVars>>

\* ------------------------------------------------------------ the call sites
\* ASSERT_LT(vid, vfun_set.size()) of add / test_and_get / priority
InRange(v) == v < vfun_size

\* entering a member function of slot v (or aborting on the range assertion).
\* Idle threads are alike and unused slots are alike: the first idle thread
\* calls, and a call goes to a used slot or to the first unused one.
Enter(t, o, v, fun, out) ==
  /\ ~aborted /\ pc[t] = "idle" /\ calls < MaxCalls
  /\ \A u \in Threads : u < t => pc[u] # "idle"
  /\ InRange(v) => v <= touched
  /\ touched' = IF InRange(v) /\ v = touched THEN touched + 1 ELSE touched
  /\ calls' = calls + 1
  /\ op' = [op EXCEPT ![t] = o]
  /\ vid' = [vid EXCEPT ![t] = v]
  /\ other' = [other EXCEPT ![t] = fun]
  /\ ret' = [ret EXCEPT ![t] = out]
  /\ retIn' = [retIn EXCEPT ![t] = out]
  /\ returned' = NoCall
  /\ IF InRange(v)
       THEN /\ pc' = [pc EXCEPT ![t] = "lock"]
            /\ aborted' = aborted
            /\ LET w == WinAt(v, t) IN
               CASE o = "add" ->
                      /\ win' = [win EXCEPT ![v] =
                                  [w EXCEPT !.n = @ + 1, !.sum = Merge(@, fun),
                                            !.conc = @ \/ Busy(v, t) # {}]]
                      /\ tgClean' = [u \in Threads |->
                                       IF u \in Busy(v, t) THEN FALSE ELSE tgClean[u]]
                 [] o \in {"test_and_get", "get"} ->
                      /\ win' = [win EXCEPT ![v] = [w EXCEPT !.ok = FALSE]]
                      /\ tgClean' = [u \in Threads |->
                                       IF u = t
                                         THEN o = "test_and_get" /\ w.ok /\ w.n >= 1
                                              /\ Busy(v, t) = {}
                                         ELSE IF u \in Busy(v, t) THEN FALSE
                                              ELSE tgClean[u]]
                 [] OTHER -> UNCHANGED <<win, tgClean>>
       ELSE /\ pc' = [pc EXCEPT ![t] = "abort"]
            /\ aborted' = TRUE
            /\ UNCHANGED <<win, tgClean>>
  /\ UNCHANGED <<accVars, flag, ledgerVars, lockedSet, lockedEff, lockedCyc, cycVars, runVars>>

\* vertex_functor_set::add(vid, fun)
add(t, v, fun) == Enter(t, "add", v, fun, Empty)

\* vertex_functor_set::test_and_get(vid, ret_fun)
test_and_get(t, v, ret_fun) == Enter(t, "test_and_get", v, Empty, ret_fun)

\* vertex_functor_set::priority(vid)
priority(t, v) == Enter(t, "priority", v, Empty, Empty)

\* vfun_type::get() on an existing slot; `update_functor_type ret;`
get(t, v) == InRange(v) /\ Enter(t, "get", v, Empty, Empty)

\* what a returning call leaves in its thread: nothing
Leave(t) ==
  /\ pc' = [pc EXCEPT ![t] = "idle"]
  /\ op' = [op EXCEPT ![t] = "none"]
  /\ vid' = [vid EXCEPT ![t] = 0]
  /\ other' = [other EXCEPT ![t] = Empty]
  /\ ret' = [ret EXCEPT ![t] = Empty]
  /\ flag' = [flag EXCEPT ![t] = FALSE]
  /\ tgClean' = [tgClean EXCEPT ![t] = FALSE]
  /\ lockedSet' = [lockedSet EXCEPT ![t] = FALSE]
  /\ lockedEff' = [lockedEff EXCEPT ![t] = 0]
  /\ lockedCyc' = [lockedCyc EXCEPT ![t] = 0]
  /\ retIn' = [retIn EXCEPT ![t] = Empty]

\* the record of a call by t that returns value, its output argument holding out
Return(t, value, out) ==
  [op |-> op[t], t |-> t, vid |-> vid[t], value |-> value, out |-> out,
   arg |-> other[t], outIn |-> retIn[t],
   lockedSet |-> lockedSet[t], lockedEff |-> lockedEff[t], lockedCyc |-> lockedCyc[t],
   clean |-> tgClean[t], expect |-> win[vid[t]].sum, n |-> win[vid[t]].n,
   conc |-> win[vid[t]].conc]

\* ------------------------------------------------------------ vfun_type::set
\* lock.lock(); const bool already_set(is_set);
set_lock(t) ==
  /\ Acquire(t, "add")
  /\ flag' = [flag EXCEPT ![t] = is_set[vid[t]]]
  /\ pc' = [pc EXCEPT ![t] = "cs"]
  /\ aborted' = aborted

\* if(is_set) functor += other; else { functor = other; ... }
SetFunctor_Overwrite(f, already, fun) == fun
SetFunctor(f, already, fun) == IF already THEN Merge(f, fun) ELSE fun

\* ... is_set = true; }  lock.unlock();  return !already_set;
set_write(t) ==
  /\ ~aborted /\ pc[t] = "cs" /\ op[t] = "add"
  /\ functor' = [functor EXCEPT ![vid[t]] = SetFunctor(@, flag[t], other[t])]
  /\ is_set' = [is_set EXCEPT ![vid[t]] = TRUE]
  /\ lock' = [lock EXCEPT ![vid[t]] = NoThread]
  /\ effects' = [effects EXCEPT ![vid[t]] = @ + 1]
  /\ cycAdds' = [cycAdds EXCEPT ![vid[t]] = @ + 1]
  /\ cycFirsts' = [cycFirsts EXCEPT ![vid[t]] = IF flag[t] THEN @ ELSE @ + 1]
  /\ addedTotal' = [addedTotal EXCEPT ![vid[t]] = Merge(@, other[t])]
  /\ returned' = Return(t, ~flag[t], ret[t])
  /\ Leave(t)
  /\ UNCHANGED <<vfun_size, ctlVars, win, gotTotal, runVars>>

\* ---------------------------------------------------- vfun_type::test_and_get
\* lock.lock(); const bool success(is_set);
test_and_get_lock(t) ==
  /\ Acquire(t, "test_and_get")
  /\ flag' = [flag EXCEPT ![t] = is_set[vid[t]]]
  /\ pc' = [pc EXCEPT ![t] = "cs"]
  /\ aborted' = aborted

\* the flag a consuming read leaves behind: is_set = false
Consumed_Kept(b) == b
Consumed(b) == FALSE

\* what test_and_get leaves in ret: if(success) ret = functor;
Fetched_Always(success, out, f) == f
Fetched(success, out, f) == IF success THEN f ELSE out

\* if(success) { ret = functor; is_set = false; }  lock.unlock();  return success;
test_and_get_body(t) ==
  /\ ~aborted /\ pc[t] = "cs" /\ op[t] = "test_and_get"
  /\ is_set' = [is_set EXCEPT ![vid[t]] = IF flag[t] THEN Consumed(@) ELSE @]
  /\ lock' = [lock EXCEPT ![vid[t]] = NoThread]
  /\ IF flag[t]
       THEN /\ effects' = [effects EXCEPT ![vid[t]] = 0]
            /\ cycAdds' = [cycAdds EXCEPT ![vid[t]] = 0]
            /\ cycFirsts' = [cycFirsts EXCEPT ![vid[t]] = 0]
            /\ gotTotal' = [gotTotal EXCEPT ![vid[t]] = Merge(@, functor[vid[t]])]
       ELSE UNCHANGED <<effects, cycAdds, cycFirsts, gotTotal>>
  /\ returned' = Return(t, flag[t], Fetched(flag[t], ret[t], functor[vid[t]]))
  /\ Leave(t)
  /\ UNCHANGED <<vfun_size, functor, ctlVars, win, addedTotal, runVars>>

\* -------------------------------------------------------- vfun_type::priority
\* lock.lock(); const bool was_set = is_set;
priority_lock(t) ==
  /\ Acquire(t, "priority")
  /\ flag' = [flag EXCEPT ![t] = is_set[vid[t]]]
  /\ pc' = [pc EXCEPT ![t] = "cs"]
  /\ aborted' = aborted

\* const double priority = functor.priority();  lock.unlock();
\* return std::make_pair(was_set, priority);
priority_read(t) ==
  /\ ~aborted /\ pc[t] = "cs" /\ op[t] = "priority"
  /\ lock' = [lock EXCEPT ![vid[t]] = NoThread]
  /\ returned' = Return(t, <<flag[t], Priority(functor[vid[t]])>>, ret[t])
  /\ Leave(t)
  /\ UNCHANGED <<vfun_size, is_set, functor, ctlVars, win, ledgerVars, cycVars, runVars>>

\* ------------------------------------------------------------- vfun_type::get
\* ASSERT_TRUE(is_set): whether the call goes on
Asserted_Off(b) == TRUE
Asserted(b) == b

\* lock.lock(); ASSERT_TRUE(is_set);   (the lock stays held by the dead call)
get_lock(t) ==
  /\ Acquire(t, "get")
  /\ flag' = flag
  /\ IF Asserted(is_set[vid[t]])
       THEN pc' = [pc EXCEPT ![t] = "cs"] /\ aborted' = aborted
       ELSE pc' = [pc EXCEPT ![t] = "abort"] /\ aborted' = TRUE

\* ret = functor; is_set = false; lock.unlock();
get_copy(t) ==
  /\ ~aborted /\ pc[t] = "cs" /\ op[t] = "get"
  /\ ret' = [ret EXCEPT ![t] = functor[vid[t]]]
  /\ is_set' = [is_set EXCEPT ![vid[t]] = Consumed(@)]
  /\ lock' = [lock EXCEPT ![vid[t]] = NoThread]
  /\ pc' = [pc EXCEPT ![t] = "after"]
  /\ effects' = [effects EXCEPT ![vid[t]] = 0]
  /\ cycAdds' = [cycAdds EXCEPT ![vid[t]] = 0]
  /\ cycFirsts' = [cycFirsts EXCEPT ![vid[t]] = 0]
  /\ returned' = NoCall
  /\ UNCHANGED <<vfun_size, functor, op, vid, other, flag, ctlVars, winVars, ledgerVars, lockHist, runVars>>

\* what a read of `functor` made outside the lock can see while another thread
\* is about to write it inside set(): the old value, the new one, or any mix
TornReads(old, new) ==
  LET Choices(k) == (IF k \in DOMAIN old THEN {old[k]} ELSE {})
                      \cup (IF k \in DOMAIN new THEN {new[k]} ELSE {})
      Doms == {D \in SUBSET ((DOMAIN old) \cup (DOMAIN new)) :
                 ((DOMAIN old) \cap (DOMAIN new)) \subseteq D}
  IN UNION {{m \in [D -> UNION {Choices(k) : k \in D}] : \A k \in D : m[k] \in Choices(k)}
            : D \in Doms}

RacyRead(v) ==
  LET W == {u \in Threads : lock[v] = u /\ op[u] = "add" /\ pc[u] = "cs"}
  IN IF W = {} THEN {functor[v]}
     ELSE UNION {TornReads(functor[v], SetFunctor(functor[v], flag[u], other[u])) : u \in W}

\* return functor;   (after lock.unlock(): the live field, not the copy `ret`)
get_return(t) ==
  /\ ~aborted /\ pc[t] = "after" /\ op[t] = "get"
  /\ \E r \in RacyRead(vid[t]) : returned' = Return(t, r, ret[t])
  /\ Leave(t)
  /\ UNCHANGED <<accVars, ctlVars, win, ledgerVars, cycVars, runVars>>

\* ------------------------------------------------- vertex_functor_set::resize
\* std::vector::resize: the first min(old, n) slots are kept as they are, slots
\* beyond the old size are default-constructed
Resized(old, n, dflt) == [v \in 0..(n - 1) |-> IF v \in DOMAIN old THEN old[v] ELSE dflt]

AllIdle == \A t \in Threads : pc[t] = "idle"

\* vfun_set.resize(num_vertices), with no call in flight
resize(n) ==
  /\ ~aborted /\ AllIdle /\ calls < MaxCalls
  /\ calls' = calls + 1
  /\ vfun_size' = n
  /\ is_set' = Resized(is_set, n, FALSE)
  /\ functor' = Resized(functor, n, Empty)
  /\ lock' = Resized(lock, n, NoThread)
  /\ touched' = IF touched > n THEN n ELSE touched
  /\ effects' = [v \in AllSlots |-> IF v < n /\ v < vfun_size THEN effects[v] ELSE 0]
  /\ cycAdds' = [v \in AllSlots |-> 0]
  /\ cycFirsts' = [v \in AllSlots |-> 0]
  /\ returned' = [op |-> "resize", n |-> n]
  /\ UNCHANGED <<pc, locVars, aborted, winVars, ledgerVars, lockHist, runVars>>

\* vertex_functor_set::size
size == vfun_size

\* ------------------------------------------------------------ specifications
Step(t) ==
  \/ set_lock(t)
  \/ set_write(t)
  \/ test_and_get_lock(t)
  \/ test_and_get_body(t)
  \/ priority_lock(t)
  \/ priority_read(t)

\* threads calling add, test_and_get and priority
Next ==
  \/ \E t \in Threads, v \in AllSlots, fun \in InPayloads : add(t, v, fun)
  \/ \E t \in Threads, v \in AllSlots, out \in OutArgs : test_and_get(t, v, out)
  \/ \E t \in Threads, v \in AllSlots : priority(t, v)
  \/ \E t \in Threads : Step(t)

Spec == Init /\ [][Next]_vars

\* ... and get
GetStep(t) ==
  \/ get_lock(t)
  \/ get_copy(t)
  \/ get_return(t)

NextGet ==
  \/ Next
  \/ \E t \in Threads, v \in AllSlots : get(t, v)
  \/ \E t \in Threads : GetStep(t)

SpecGet == Init /\ [][NextGet]_vars

\* ... and resize between calls
NextResize ==
  \/ Next
  \/ \E n \in AllSlots : resize(n)

SpecResize == Init /\ [][NextResize]_vars

\* ============================================================== claims, part I
\* the payload pending in slot v, if any
PendingOf(v) == IF is_set[v] THEN functor[v] ELSE Empty

\* the slot a step of thread t works on, when the step is t's
SlotOfStep(t) == IF pc[t] = "idle" THEN vid'[t] ELSE vid[t]

\* C1: a test_and_get issued on a slot after all the concurrent adds that
\* followed its last not-pending quiet moment have returned, with no other call
\* on the slot meanwhile, succeeds and yields exactly the merge of the added
\* payloads, in whatever order the adds took the lock.
C1_MergedDelivery ==
  (returned.op = "test_and_get" /\ returned.clean)
    => (returned.value = TRUE /\ returned.out = returned.expect)

\* two adds that overlapped in time, then the test_and_get that collects both
C1_Witness ==
  /\ returned.op = "test_and_get" /\ returned.clean
  /\ returned.conc /\ returned.n >= 2 /\ returned.out # Empty

\* C2: whenever no call is in progress, what successful test_and_get calls have
\* returned for a slot, merged with what is pending in it, is the merge of all
\* payloads of completed adds: nothing is lost, nothing comes out twice.
C2_NoLossNoDup ==
  AllIdle => \A v \in DOMAIN is_set : Merge(gotTotal[v], PendingOf(v)) = addedTotal[v]

\* something delivered, something else pending, nobody in a call
C2_Witness ==
  /\ AllIdle
  /\ \E v \in DOMAIN is_set : gotTotal[v] # Empty /\ is_set[v] /\ functor[v] # Empty

\* C3: add returns true exactly when the slot was not pending as it took the
\* lock, and among the adds that take effect between two consumptions (or
\* between a resize and the first consumption) exactly one returns true.
C3_OneFirstPerCycle ==
  /\ returned.op = "add" => returned.value = ~returned.lockedSet
  /\ \A v \in AllSlots : cycAdds[v] > 0 => cycFirsts[v] = 1

\* C4: a test_and_get that takes the lock when no add has taken effect since the
\* slot was created or last consumed returns false, and leaves the pending flag
\* and the caller's output argument as they were.
C4_NoneWhenNothingAdded ==
  (returned.op = "test_and_get" /\ returned.lockedEff = 0)
    => /\ returned.value = FALSE
       /\ returned.out = returned.outIn
       /\ is_set[returned.vid] = returned.lockedSet

\* the second test_and_get right after a successful one
C4_Witness ==
  /\ returned.op = "test_and_get" /\ returned.lockedEff = 0
  /\ returned.value = FALSE
  /\ gotTotal[returned.vid] # Empty

\* C5: get returns the copy of the payload that was pending while it held the
\* lock (the local `ret`), whatever adds run concurrently.
C5_GetReturnsCopy ==
  returned.op = "get" => returned.value = returned.out

\* C6: priority leaves the pending flag and the payload of every slot as they
\* are, and the pair it returns is one snapshot of its slot: the flag is is_set
\* and the scalar is the priority of the functor of that same state.
C6_PrioritySnapshot ==
  [][\A t \in Threads :
       (op[t] = "priority" /\ pc'[t] # pc[t])
         => /\ is_set' = is_set /\ functor' = functor
            /\ (pc'[t] = "idle" =>
                  returned'.value = <<is_set[vid[t]], Priority(functor[vid[t]])>>)]_vars

\* priority sees a pending payload while another call waits for the same lock
C6_Witness ==
  /\ returned.op = "priority" /\ returned.value[1] = TRUE /\ returned.value[2] > 0
  /\ \E u \in Threads : pc[u] = "lock" /\ vid[u] = returned.vid /\ op[u] = "add"

\* C7: add, test_and_get and priority with a vertex id >= size(), and get on a
\* slot that is not pending, abort: they return no value, and the step that
\* aborts changes no slot's pending flag or payload.
Aborting(t) == pc[t] = "abort"
C7_FatalPreconditions ==
  [][/\ (aborted' /\ ~aborted)
          => (is_set' = is_set /\ functor' = functor /\ returned'.op = "none")
     /\ \A t \in Threads :
          /\ (pc'[t] # "idle" /\ ~(vid'[t] < vfun_size')) => (Aborting(t)' /\ aborted')
          /\ (op'[t] = "get" /\ pc'[t] \in {"cs", "after"}) => lockedSet'[t]
          /\ (op'[t] = "get" /\ pc'[t] = "abort") => ~lockedSet'[t]
     /\ returned'.op \in {"add", "test_and_get", "priority", "get"}
          => returned'.vid < vfun_size'
     /\ returned'.op = "get" => returned'.lockedSet]_vars

\* get dies on a slot that is not pending, holding its lock, another slot pending
C7_Witness ==
  /\ aborted
  /\ \E t \in Threads : /\ pc[t] = "abort" /\ op[t] = "get" /\ lock[vid[t]] = t
                        /\ \E v \in DOMAIN is_set : v # vid[t] /\ is_set[v]

\* C8: a step of a call on slot v changes neither the pending flag, the payload
\* nor the lock of any other slot, and a call waiting for slot v's lock can take
\* it as soon as that lock is free, whoever holds the other slots' locks.
AnyLock(t) == set_lock(t) \/ test_and_get_lock(t) \/ priority_lock(t) \/ get_lock(t)
C8_PerSlotOnly ==
  /\ [](\A t \in Threads :
          (~aborted /\ pc[t] = "lock" /\ lock[vid[t]] = NoThread) => ENABLED AnyLock(t))
  /\ [][\A t \in Threads :
          pc'[t] # pc[t]
            => \A u \in DOMAIN is_set : u # SlotOfStep(t)
                 => /\ u \in DOMAIN is_set'
                    /\ is_set'[u] = is_set[u] /\ functor'[u] = functor[u]
                    /\ lock'[u] = lock[u]]_vars

\* a call completes on one slot while another thread is inside another slot's lock
C8_Witness ==
  /\ returned.op \in {"add", "test_and_get", "get"}
  /\ \E u \in Threads : /\ pc[u] = "cs" /\ lock[vid[u]] = u /\ vid[u] # returned.vid
                        /\ is_set[vid[u]]

\* C9: after resize(n), size() is n and no test_and_get returns a payload from a
\* slot to which no add has taken effect since the resize.
C9_ResizeResets ==
  /\ returned.op = "resize" => (size = returned.n /\ DOMAIN is_set = 0..(returned.n - 1))
  /\ (returned.op = "test_and_get" /\ returned.lockedCyc = 0) => returned.value = FALSE

\* ================================= part II: the flow-decomposition run (query-flow)
\* RESET_PROB = 0.15 = ResetNum / ResetDen
ResetNum == 3
ResetDen == 20

\* Weights are integers in units of 1/One.  Every graph below has out-degrees
\* 0, 1 or 2 and a weight passes at most MaxNiters non-final apply()s, so every
\* product with RESET_PROB and with c is an integer, and so is half of it (the
\* index vectors below hold weights 1.0 and 0.5): no division rounds.
One == 2 * (ResetDen * 2) ^ MaxNiters

Path == {<<0, 1>>, <<1, 2>>}
Graphs == {Path, {<<0, 1>>, <<0, 2>>, <<1, 2>>}, {<<0, 1>>, <<1, 0>>}}
SourceSets == {NoSources, SourceSet({}), SourceSet({0}), SourceSet({2}), SourceSet({0, 1})}
Thresholds == {0, One \div 2}

\* VertexData::ppr as loaded: empty with --no_index, else the vertex's index
\* vector, normalised to sum 1.0 by VertexData::load (a vertex whose stored
\* counter map is empty loads an empty vector)
Indexes ==
  {[v \in Vertices |-> [k \in {v} |-> One]],
   [v \in Vertices |-> [k \in {v, (v + 1) % NumVertices} |-> One \div 2]],
   [v \in Vertices |-> IF v = 1 THEN Empty ELSE [k \in {v} |-> One]]}

\* vertex.num_out_edges()
OutDeg(v) == Cardinality({e \in edges : e[1] = v})

\* main up to engine->start(): options parsed, ++niters, sources read, the
\* graph loaded with empty flow/residual, and signal_all() has left an empty
\* message pending for every vertex
RunInit ==
  /\ vfun_size = NumVertices
  /\ is_set = [v \in Vertices |-> TRUE]
  /\ functor = [v \in Vertices |-> Empty]
  /\ lock = [v \in Vertices |-> NoThread]
  /\ ThreadsInit
  /\ edges \in Graphs /\ sources \in SourceSets /\ threshold \in Thresholds
  /\ \E n \in 1..MaxNiters : niters = n + 1
  /\ iteration = 0 /\ rphase = "gas"
  /\ stage = [v \in Vertices |-> "wait"]
  /\ prog_flow = [v \in Vertices |-> Empty]
  /\ no_index \in BOOLEAN
  /\ IF no_index THEN ppr = [v \in Vertices |-> Empty] ELSE ppr \in Indexes
  /\ vflow = [v \in Vertices |-> Empty]
  /\ residual = [v \in Vertices |-> Empty]
  /\ scattered = {}
  /\ CollectOff
  /\ WriterOff

\* DecompositionProgram::init: the program's flow after init
Seeded_NoMessage(v, flow, msg) ==
  IF iteration = 0
    THEN IF sources.null \/ v \in sources.ids
           THEN [k \in (DOMAIN flow) \cup {v} |-> IF k = v THEN One ELSE flow[k]]
           ELSE flow
    ELSE flow
\* (the else taken as the inner if's)
Seeded_InnerElse(v, flow, msg) ==
  IF iteration = 0
    THEN IF sources.null \/ v \in sources.ids
           THEN [k \in (DOMAIN flow) \cup {v} |-> IF k = v THEN One ELSE flow[k]]
           ELSE msg
    ELSE flow
Seeded(v, flow, msg) ==
  IF iteration = 0
    THEN IF sources.null \/ v \in sources.ids
           THEN [k \in (DOMAIN flow) \cup {v} |-> IF k = v THEN One ELSE flow[k]]
           ELSE flow
    ELSE msg

\* (init storing the delivered message in the vertex data as well)
init_Store(v) ==
  /\ rphase = "gas" /\ stage[v] = "wait" /\ is_set[v]
  /\ is_set' = [is_set EXCEPT ![v] = Consumed(@)]
  /\ prog_flow' = [prog_flow EXCEPT ![v] = Seeded(v, @, Fetched(TRUE, Empty, functor[v]))]
  /\ vflow' = [vflow EXCEPT ![v] = Merge(@, prog_flow'[v])]
  /\ stage' = [stage EXCEPT ![v] = "inited"]
  /\ UNCHANGED <<vfun_size, functor, lock, thrVars, cfgVars, iteration, rphase, ppr, residual,
                 scattered, colVars, wrVars>>

\* the engine takes vertex v's pending message out of its slot and calls init
init(v) ==
  /\ rphase = "gas" /\ stage[v] = "wait" /\ is_set[v]
  /\ is_set' = [is_set EXCEPT ![v] = Consumed(@)]
  /\ prog_flow' = [prog_flow EXCEPT ![v] = Seeded(v, @, Fetched(TRUE, Empty, functor[v]))]
  /\ stage' = [stage EXCEPT ![v] = "inited"]
  /\ UNCHANGED <<vfun_size, functor, lock, thrVars, cfgVars, iteration, rphase, dataVars,
                 scattered, colVars, wrVars>>

\* RESET_PROB * it->second
ResetShare_Rest(w) == ((ResetDen - ResetNum) * w) \div ResetDen
ResetShare(w) == (ResetNum * w) \div ResetDen

\* c * it->second, c = (1-RESET_PROB) * (num_out_edges > 0 ? 1.0 / num_out_edges : 1.0)
Kept_NoDegree(w, deg) == ((ResetDen - ResetNum) * w) \div ResetDen
Kept(w, deg) == ((ResetDen - ResetNum) * w) \div (ResetDen * (IF deg > 0 THEN deg ELSE 1))

\* residual.val[it->first] += RESET_PROB * it->second, for every entry of flow
Pushed(res, f) ==
  [k \in (DOMAIN res) \cup (DOMAIN f) |->
     IF k \in DOMAIN f THEN At(res, k) + ResetShare(f[k]) ELSE res[k]]

\* new_flow: the entries with t > threshold
NewFlow(f, deg) ==
  LET K == {k \in DOMAIN f : Kept(f[k], deg) > threshold}
  IN [k \in K |-> Kept(f[k], deg)]

\* DecompositionProgram::apply (gather_edges is NO_EDGES: nothing is gathered)
apply(v) ==
  /\ rphase = "gas" /\ stage[v] = "inited"
  /\ stage' = [stage EXCEPT ![v] = "applied"]
  /\ IF iteration = niters - 1
       THEN /\ vflow' = [vflow EXCEPT ![v] = Merge(@, prog_flow[v])]
            /\ prog_flow' = [prog_flow EXCEPT ![v] = Empty]
            /\ UNCHANGED residual
       ELSE /\ residual' = [residual EXCEPT ![v] = Pushed(@, prog_flow[v])]
            /\ prog_flow' = [prog_flow EXCEPT ![v] = NewFlow(@, OutDeg(v))]
            /\ UNCHANGED vflow
  /\ UNCHANGED <<accVars, thrVars, cfgVars, iteration, rphase, ppr, scattered, colVars,
                 wrVars>>

\* the barrier after apply: every pending vertex has run init and apply
apply_barrier ==
  /\ rphase = "gas"
  /\ \A v \in Vertices : ~is_set[v] /\ stage[v] # "inited"
  /\ rphase' = "scatter"
  /\ UNCHANGED <<accVars, thrVars, cfgVars, iteration, stage, prog_flow, dataVars, scattered,
                 colVars, wrVars>>

\* DecompositionProgram::scatter_edges: OUT_EDGES (TRUE) or NO_EDGES (FALSE)
scatter_edges_Out(v) == TRUE
scatter_edges(v) == ~IsEmpty(prog_flow[v])

\* DecompositionProgram::scatter on the edge v -> w: context.signal(target, flow),
\* which adds the message to the target's slot
scatter(v, w) ==
  /\ rphase = "scatter" /\ <<v, w>> \in edges \ scattered
  /\ stage[v] = "applied" /\ scatter_edges(v)
  /\ functor' = [functor EXCEPT ![w] = SetFunctor(@, is_set[w], prog_flow[v])]
  /\ is_set' = [is_set EXCEPT ![w] = TRUE]
  /\ scattered' = scattered \cup {<<v, w>>}
  /\ UNCHANGED <<vfun_size, lock, thrVars, cfgVars, iteration, rphase, stage, prog_flow,
                 dataVars, colVars, wrVars>>

\* the barrier after scatter: the round counter advances, and the run stops at
\* max_iterations (= niters) rounds or when no vertex has a message pending
scatter_barrier ==
  /\ rphase = "scatter"
  /\ \A e \in edges : (stage[e[1]] = "applied" /\ scatter_edges(e[1])) => e \in scattered
  /\ iteration' = iteration + 1
  /\ stage' = [v \in Vertices |-> "wait"]
  /\ scattered' = {}
  /\ rphase' = IF iteration + 1 >= niters \/ \A v \in Vertices : ~is_set[v]
                 THEN "stopped" ELSE "gas"
  /\ UNCHANGED <<accVars, thrVars, cfgVars, prog_flow, dataVars, colVars, wrVars>>

NextRun ==
  \/ \E v \in Vertices : init(v)
  \/ \E v \in Vertices : apply(v)
  \/ apply_barrier
  \/ \E v \in Vertices, w \in Vertices : scatter(v, w)
  \/ scatter_barrier

SpecRun == RunInit /\ [][NextRun]_vars

\* engine->start() returns only when the run is over: the engine keeps running
\* the phases of the round as long as a step is left to take
SpecRunFair == SpecRun /\ WF_vars(NextRun)

\* ------------------------------------------- the collect pass (after the run)
\* main: max_iterations = 1; a new synchronous_engine<CollectProgram>, whose
\* message slots are its own: none pending
engine2_new ==
  /\ rphase = "stopped"
  /\ rphase' = "collect"
  /\ is_set' = [v \in Vertices |-> FALSE]
  /\ functor' = [v \in Vertices |-> Empty]
  /\ iteration' = 0
  /\ UNCHANGED <<vfun_size, lock, thrVars, cfgVars, stage, prog_flow, dataVars, scattered,
                 colVars, wrVars>>

\* it2->second *= it->second, for every entry of the copy of ppr: p[k] * w / One,
\* computed as (p[k] / 0.5) * (w / 2) to stay within 32-bit integers; both
\* divisions are exact for the index vectors and the flows of this model
Scaled_Unscaled(p, w) == p
Scaled(p, w) == [k \in DOMAIN p |-> (p[k] \div (One \div 2)) * (w \div 2)]

\* if (it->second < threshold) continue;
Significant(w) == ~(w < threshold)

\* the entries of vertex.data().flow the first loop signals for
FlowKeys(v) == IF no_index THEN {} ELSE {k \in DOMAIN vflow[v] : Significant(vflow[v][k])}

\* the message of the first loop for the flow entry k: ppr scaled by the flow
\* weight, plus residual[k] under the vertex's own id when residual has the key
FlowMsg(v, k) ==
  LET val == Scaled(ppr[v], vflow[v][k])
  IN IF k \in DOMAIN residual[v]
       THEN [j \in (DOMAIN val) \cup {v} |->
               At(val, j) + (IF j = v THEN residual[v][k] ELSE 0)]
       ELSE val

\* residual after the first loop: it2->second = 0.0 for the entries folded
Zeroed_Kept(v) == residual[v]
Zeroed(v) == [k \in DOMAIN residual[v] |-> IF k \in FlowKeys(v) THEN 0 ELSE residual[v][k]]

\* the entries of residual the second loop signals for, and its message
ResidualKeys(v) == {k \in DOMAIN residual[v] : Significant(Zeroed(v)[k])}
ResidualMsg(v, k) == [j \in {v} |-> Zeroed(v)[k]]

\* context.signal_vid(k, msg) of both loops of collect_results(v), on slot k
SlotAfter(v, k) ==
  LET f1 == IF k \in FlowKeys(v)
              THEN SetFunctor(functor[k], is_set[k], FlowMsg(v, k)) ELSE functor[k]
      s1 == is_set[k] \/ k \in FlowKeys(v)
  IN IF k \in ResidualKeys(v) THEN SetFunctor(f1, s1, ResidualMsg(v, k)) ELSE f1

\* collect_results, called once per vertex by engine2.transform_vertices
collect_results(v) ==
  /\ rphase = "collect" /\ v \notin transformed
  /\ functor' = [k \in Vertices |-> SlotAfter(v, k)]
  /\ is_set' = [k \in Vertices |-> is_set[k] \/ k \in FlowKeys(v) \/ k \in ResidualKeys(v)]
  /\ sig_log' = [flow |-> [k \in FlowKeys(v) |-> FlowMsg(v, k)],
                 residual |-> [k \in ResidualKeys(v) |-> ResidualMsg(v, k)]]
  /\ residual' = [residual EXCEPT ![v] = Empty]
  /\ transformed' = transformed \cup {v}
  /\ UNCHANGED <<vfun_size, lock, thrVars, cfgVars, iteration, rphase, stage, prog_flow,
                 ppr, vflow, scattered, cppr, wrVars>>

\* engine2.start(), after transform_vertices has returned
engine2_start ==
  /\ rphase = "collect" /\ transformed = Vertices
  /\ rphase' = "cgas"
  /\ UNCHANGED <<accVars, thrVars, cfgVars, iteration, stage, prog_flow, dataVars, scattered,
                 colVars, wrVars>>

\* the engine takes vertex v's pending message and calls CollectProgram::init
collect_init(v) ==
  /\ rphase = "cgas" /\ stage[v] = "wait" /\ is_set[v]
  /\ is_set' = [is_set EXCEPT ![v] = Consumed(@)]
  /\ cppr' = [cppr EXCEPT ![v] = Fetched(TRUE, Empty, functor[v])]
  /\ stage' = [stage EXCEPT ![v] = "inited"]
  /\ UNCHANGED <<vfun_size, functor, lock, thrVars, cfgVars, iteration, rphase, prog_flow,
                 dataVars, scattered, transformed, sig_log, wrVars>>

\* CollectProgram::apply: if (!ppr.empty()) vertex.data().ppr.val = ppr.val
Collected_Always(old, msg) == msg
Collected(old, msg) == IF ~IsEmpty(msg) THEN msg ELSE old

collect_apply(v) ==
  /\ rphase = "cgas" /\ stage[v] = "inited"
  /\ stage' = [stage EXCEPT ![v] = "applied"]
  /\ ppr' = [ppr EXCEPT ![v] = Collected(@, cppr[v])]
  /\ UNCHANGED <<accVars, thrVars, cfgVars, iteration, rphase, prog_flow, vflow, residual,
                 scattered, colVars, wrVars>>

\* the single round of engine2 ends: scatter_edges is NO_EDGES for every vertex
collect_end ==
  /\ rphase = "cgas"
  /\ \A v \in Vertices : ~is_set[v] /\ stage[v] # "inited"
  /\ rphase' = "done"
  /\ iteration' = iteration + 1
  /\ UNCHANGED <<accVars, thrVars, cfgVars, stage, prog_flow, dataVars, scattered, colVars,
                 wrVars>>

NextFull ==
  \/ NextRun
  \/ engine2_new
  \/ \E v \in Vertices : collect_results(v)
  \/ engine2_start
  \/ \E v \in Vertices : collect_init(v)
  \/ \E v \in Vertices : collect_apply(v)
  \/ collect_end

SpecFull == RunInit /\ [][NextFull]_vars

\* ------------------------------------------------ the writer (pagerank_writer)
\* the ppr vectors the writer is given: any keys, any weights, ties included
PprVecs == UNION {[D -> 1..MaxWeight] : D \in SUBSET Vertices}

\* graph.save(saveprefix, pagerank_writer(topk), ...) on a graph in which one
\* vertex holds a ppr vector
WriterInit ==
  /\ vfun_size = NumSlots
  /\ is_set = [v \in 0..(NumSlots - 1) |-> FALSE]
  /\ functor = [v \in 0..(NumSlots - 1) |-> Empty]
  /\ lock = [v \in 0..(NumSlots - 1) |-> NoThread]
  /\ ThreadsInit
  /\ edges = {} /\ sources = NoSources /\ threshold = 0 /\ niters = 0
  /\ iteration = 0 /\ rphase = "off"
  /\ stage = [v \in Vertices |-> "wait"]
  /\ prog_flow = [v \in Vertices |-> Empty]
  /\ \E u \in Vertices, p \in PprVecs : ppr = [v \in Vertices |-> IF v = u THEN p ELSE Empty]
  /\ vflow = [v \in Vertices |-> Empty]
  /\ residual = [v \in Vertices |-> Empty]
  /\ scattered = {}
  /\ no_index = FALSE
  /\ CollectOff
  /\ topk \in 0..MaxTopk
  /\ strm = [v \in Vertices |-> << >>]
  /\ written = {}

\* compare: firstElem.second > secondElem.second, on <<key, weight>> pairs
compare_Less(firstElem, secondElem) == firstElem[2] < secondElem[2]
compare(firstElem, secondElem) == firstElem[2] > secondElem[2]

\* result(ppr.val.begin(), ppr.val.end()): the <<key, weight>> pairs
Pairs(p) == {<<k, p[k]>> : k \in DOMAIN p}

\* std::sort(result.begin(), result.end(), compare): some arrangement of the
\* pairs in which no element is compare-before an earlier one (elements that
\* compare equivalent may come out in any order)
Sorts(S) ==
  {r \in [1..Cardinality(S) -> S] :
     /\ \A i, j \in 1..Cardinality(S) : i # j => r[i] # r[j]
     /\ \A i, j \in 1..Cardinality(S) : i < j => ~compare(r[j], r[i])}

\* std::min(topk, result.size())
Min(a, b) == IF a < b THEN a ELSE b

\* the tokens of the string save_vertex returns, for one outcome of the sort:
\* vertex.id(), len, result[0].first ... result[len-1].first, endl; or nothing
LineOf(v, p, r) ==
  IF ~IsEmpty(p)
    THEN LET len == Min(topk, Cardinality(DOMAIN p))
         IN <<v, len>> \o [i \in 1..len |-> r[i][1]]
    ELSE << >>

\* pagerank_writer::save_vertex
save_vertex(v) ==
  /\ v \notin written
  /\ \E r \in Sorts(Pairs(ppr[v])) : strm' = [strm EXCEPT ![v] = LineOf(v, ppr[v], r)]
  /\ written' = written \cup {v}
  /\ UNCHANGED <<accVars, thrVars, cfgVars, iteration, rphase, stage, prog_flow, dataVars,
                 scattered, colVars, topk>>

NextWriter == \E v \in Vertices : save_vertex(v)

SpecWriter == WriterInit /\ [][NextWriter]_vars

\* ============================================================= claims, part II
\* the run on the path 0 -> 1 -> 2 from source {0} with threshold 0, in which
\* rounds 0 and 1 are not the final round
PathRun ==
  /\ edges = Path /\ sources = SourceSet({0}) /\ threshold = 0
  /\ niters - 1 >= 2

\* round r has just completed its scatter barrier
AfterRound(r) == iteration = r + 1 /\ \A v \in Vertices : stage[v] = "wait"

\* C10 (as amended): in that run, after round 0 vertex 0's residual[0] is 0.15
\* and vertex 0's transient flow entry for key 0 is 0.85, which is also what is
\* pending for vertex 1; after round 1 vertex 1's residual[0] is
\* 0.85 * 0.15 = 0.1275.
C10_PathScenario ==
  PathRun =>
    /\ AfterRound(0) => /\ At(residual[0], 0) * 100 = 15 * One
                        /\ At(prog_flow[0], 0) * 100 = 85 * One
                        /\ At(PendingOf(1), 0) * 100 = 85 * One
    /\ AfterRound(1) => At(residual[1], 0) * 10000 = 1275 * One

\* round 1 of that run is over and vertex 1 has pushed into its residual
C10_Witness == PathRun /\ AfterRound(1) /\ At(residual[1], 0) > 0

\* C10 as written: the same amounts, at vertex 1 after round 0 and at vertex 2
\* after round 1
C10_AsWritten ==
  PathRun =>
    /\ AfterRound(0) => /\ At(residual[1], 0) * 100 = 15 * One
                        /\ At(prog_flow[1], 0) * 100 = 85 * One
    /\ AfterRound(1) => At(residual[2], 0) * 10000 = 1275 * One

\* the sum of the weights of a map, and of the maps of all vertices
RECURSIVE MapSum(_, _)
MapSum(m, D) == IF D = {} THEN 0
                ELSE LET k == CHOOSE x \in D : TRUE IN m[k] + MapSum(m, D \ {k})
RECURSIVE TotalOver(_, _)
TotalOver(f, S) == IF S = {} THEN 0
                   ELSE LET v == CHOOSE x \in S : TRUE
                        IN MapSum(f[v], DOMAIN f[v]) + TotalOver(f, S \ {v})

\* a run from one source vertex with threshold 0
SingleSourceRun == ~sources.null /\ Cardinality(sources.ids) = 1 /\ threshold = 0

\* C11: flow conservation.  Each non-final round moves the share RESET_PROB of
\* the weight still in transit into residual, so after the niters - 1 non-final
\* rounds of a run from a single source with threshold 0 the weight missing from
\* the residuals is at most (1 - RESET_PROB)^(niters - 1): the total residual
\* grows towards 1.0 as the round cap grows.
C11_FlowConservation ==
  (rphase = "stopped" /\ SingleSourceRun) =>
     (One - TotalOver(residual, Vertices)) * ResetDen ^ (niters - 1)
        <= One * (ResetDen - ResetNum) ^ (niters - 1)

\* the step is vertex v's apply (of either program) / collect_results on v
ApplyStep(v) == rphase \in {"gas", "cgas"} /\ stage[v] = "inited" /\ stage'[v] = "applied"
CollectResultsStep(v) == rphase = "collect" /\ v \notin transformed /\ v \in transformed'
PersistentChanged(v) ==
  ppr'[v] # ppr[v] \/ vflow'[v] # vflow[v] \/ residual'[v] # residual[v]

\* C12 (as amended): in a full run a step that changes a vertex's ppr, flow or
\* residual is an apply step of that vertex, or the collect_results call on that
\* vertex, which changes only its residual (clearing it); init, scatter and the
\* engine's own steps change no persistent vertex data.
C12_ApplyOrCollectResults ==
  [][\A v \in Vertices :
       PersistentChanged(v) =>
         \/ ApplyStep(v)
         \/ /\ CollectResultsStep(v)
            /\ ppr'[v] = ppr[v] /\ vflow'[v] = vflow[v] /\ residual'[v] = Empty]_vars

\* the full run is over: some vertex got a residual and a final flow from apply,
\* lost the residual to collect_results and got a new ppr from the collection round
C12_Witness ==
  /\ rphase = "done"
  /\ \E v \in Vertices : /\ ~IsEmpty(vflow[v]) /\ IsEmpty(residual[v])
                         /\ ~IsEmpty(cppr[v]) /\ ppr[v] = cppr[v]

\* C12 as written: every step that changes persistent vertex data is an apply step
C12_OnlyApply ==
  [][\A v \in Vertices : PersistentChanged(v) => ApplyStep(v)]_vars

\* the weights of p are pairwise distinct
DistinctWeights(p) == \A j, k \in DOMAIN p : j # k => p[j] # p[k]

\* C13: for a vertex with non-empty ppr the writer emits one line
\* "<vertex_id> <k> <id_1> ... <id_k>" with k = min(top_k, |ppr|), and when the
\* weights are pairwise distinct id_1..id_k are the keys of the k largest
\* weights in strictly decreasing weight order; for a vertex with empty ppr it
\* emits nothing.
C13_TopKLine ==
  \A v \in written :
    LET p == ppr[v]
        line == strm[v]
        k == IF topk < Cardinality(DOMAIN p) THEN topk ELSE Cardinality(DOMAIN p)
    IN IF DOMAIN p = {}
         THEN line = << >>
         ELSE /\ Len(line) = k + 2 /\ line[1] = v /\ line[2] = k
              /\ \A i \in 3..(k + 2) : line[i] \in DOMAIN p
              /\ DistinctWeights(p) =>
                   /\ \A i, j \in 3..(k + 2) : i < j => p[line[i]] > p[line[j]]
                   /\ \A i \in 3..(k + 2) :
                        \A j \in DOMAIN p : p[j] > p[line[i]] => \E h \in 3..(i - 1) : line[h] = j

\* a vertex with three keys of distinct weights has been written with top_k = 2
\* (the shape of ppr = {5: 0.4, 2: 0.9, 7: 0.1}), the heaviest key not the smallest
C13_Witness ==
  \E v \in written :
    /\ Cardinality(DOMAIN ppr[v]) = 3 /\ DistinctWeights(ppr[v]) /\ topk = 2
    /\ Len(strm[v]) = 4
    /\ \E k \in DOMAIN ppr[v] : k < strm[v][3]

\* ============================================ claims on the functor set, continued
MaxOf(a, b) == IF a < b THEN b ELSE a

\* C14: an add that finds its slot pending promotes the pending task's priority
\* to max(old priority, new priority): right after the add has written, the slot
\* is pending and the priority of its payload is the larger of the priority of
\* the payload that was pending and the priority of the payload added.
C14_PriorityPromoted ==
  [][\A t \in Threads :
       (op[t] = "add" /\ pc[t] = "cs" /\ pc'[t] = "idle" /\ flag[t])
         => /\ is_set'[vid[t]]
            /\ Priority(functor'[vid[t]])
                 = MaxOf(Priority(functor[vid[t]]), Priority(other[t]))]_vars

\* ====================================================== claims, part II continued
\* messages init may be handed
SomeMessages == {Empty} \cup {[k \in {u} |-> One \div 2] : u \in Vertices}

\* what the claim says v's transient flow is after init in round 0
SeedOf(v) == IF sources.null \/ v \in sources.ids THEN [k \in {v} |-> One] ELSE Empty

\* C15: in round 0, with a non-empty source set configured, init leaves {v: 1.0}
\* as the transient flow of exactly the vertices v of the set and the empty flow
\* for every other vertex; with no source set configured it leaves {v: 1.0} for
\* every vertex v; every vertex runs init in round 0, and whatever message init
\* is handed in round 0 makes no difference.
C15_RoundZeroSeeding ==
  (iteration = 0 /\ rphase \in {"gas", "scatter"} /\ (sources.null \/ sources.ids # {})) =>
    /\ \A v \in Vertices : stage[v] = "inited" => prog_flow[v] = SeedOf(v)
    /\ rphase = "scatter" => \A v \in Vertices : stage[v] = "applied"
    /\ \A v \in Vertices, msg \in SomeMessages : Seeded(v, Empty, msg) = SeedOf(v)

\* round 0 with a source set: a source and a non-source have both run init
C15_Witness ==
  /\ iteration = 0 /\ rphase = "gas" /\ ~sources.null
  /\ \E v \in sources.ids : stage[v] = "inited"
  /\ \E v \in Vertices \ sources.ids : stage[v] = "inited"

\* the step is vertex v's apply in a round that is not the final one
NonFinalApplyStep(v) ==
  /\ rphase = "gas" /\ stage[v] = "inited" /\ stage'[v] = "applied"
  /\ iteration # niters - 1

\* a non-final apply of v with c = cnum / cden: residual[k] grows by
\* RESET_PROB * w for every entry (k, w) of the transient flow, the new transient
\* flow holds k with weight c * w exactly when c * w > threshold, and nothing
\* else changes
ApplyEffect(v, cnum, cden) ==
  LET f == prog_flow[v]
  IN /\ DOMAIN residual'[v] = (DOMAIN residual[v]) \cup (DOMAIN f)
     /\ \A k \in DOMAIN residual'[v] :
          residual'[v][k] * ResetDen
            = At(residual[v], k) * ResetDen + (IF k \in DOMAIN f THEN ResetNum * f[k] ELSE 0)
     /\ DOMAIN prog_flow'[v] = {k \in DOMAIN f : cnum * f[k] > threshold * cden}
     /\ \A k \in DOMAIN prog_flow'[v] : prog_flow'[v][k] * cden = cnum * f[k]
     /\ ppr' = ppr /\ vflow' = vflow

\* C16 (as amended): non-final apply, with c = (1 - reset_prob) / out_degree, or
\* 1 - reset_prob if out_degree is 0.
C16_NonFinalApply ==
  [][\A v \in Vertices :
       NonFinalApplyStep(v) =>
         ApplyEffect(v, ResetDen - ResetNum,
                     ResetDen * (IF OutDeg(v) > 0 THEN OutDeg(v) ELSE 1))]_vars

\* in a non-final round with a positive threshold, a vertex without out-edges has
\* kept a flow and a vertex has pushed into residual and pruned its whole flow
C16_Witness ==
  /\ rphase = "gas" /\ iteration # niters - 1 /\ threshold > 0
  /\ \E v \in Vertices : stage[v] = "applied" /\ OutDeg(v) = 0 /\ ~IsEmpty(prog_flow[v])
  /\ \E v \in Vertices : /\ stage[v] = "applied" /\ IsEmpty(prog_flow[v])
                         /\ ~IsEmpty(residual[v])

\* C16 as written: c = (1 - reset_prob) / out_degree, or 1 if out_degree is 0
C16_AsWritten ==
  [][\A v \in Vertices :
       NonFinalApplyStep(v) =>
         IF OutDeg(v) > 0
           THEN ApplyEffect(v, ResetDen - ResetNum, ResetDen * OutDeg(v))
           ELSE ApplyEffect(v, 1, 1)]_vars

\* merge_add of the transient flows of the vertices of S, one term per vertex
RECURSIVE FlowSum(_, _)
FlowSum(S, k) == IF S = {} THEN 0
                 ELSE LET u == CHOOSE x \in S : TRUE
                      IN At(prog_flow[u], k) + FlowSum(S \ {u}, k)
MergeOver(S) == [k \in UNION {DOMAIN prog_flow[u] : u \in S} |-> FlowSum(S, k)]

\* the sources of the edges into v that ran apply in this round and were left
\* with a non-empty transient flow, and those whose scatter has reached v's slot
Senders(v) ==
  {u \in Vertices : <<u, v>> \in edges /\ stage[u] = "applied" /\ ~IsEmpty(prog_flow[u])}
Arrived(v) == {u \in Vertices : <<u, v>> \in scattered}

\* v's slot is pending exactly when S is not empty, and then holds the merge
SlotIsMerge(v, S) ==
  /\ is_set[v] <=> S # {}
  /\ is_set[v] => functor[v] = MergeOver(S)

\* C17: cross-round delivery.  While the scatter calls of a round arrive, in any
\* order, v's slot holds the merge of the post-apply flows of the senders that
\* have arrived; when the round ends it holds the merge over all edges (u, v)
\* whose source has a non-empty post-apply flow, and is pending only if there is
\* such an edge; the slot then stays as it is until v's init of the next round,
\* which runs only on a pending slot and leaves v with exactly the slot's
\* content as its transient flow.
C17_CrossRoundDelivery ==
  [][\A v \in Vertices :
       /\ rphase = "scatter" => /\ Arrived(v) \subseteq Senders(v)
                                /\ SlotIsMerge(v, Arrived(v))
       /\ (rphase = "scatter" /\ rphase' = "gas")
            => /\ SlotIsMerge(v, Senders(v))
               /\ is_set'[v] = is_set[v] /\ functor'[v] = functor[v]
       /\ (rphase = "gas" /\ iteration > 0)
            => /\ is_set'[v] => (is_set[v] /\ functor'[v] = functor[v])
               /\ (stage[v] = "wait" /\ stage'[v] = "inited")
                    => (is_set[v] /\ prog_flow'[v] = functor[v])
               /\ (stage[v] = "wait" /\ ~is_set[v]) => stage'[v] = "wait"]_vars

\* in a round after round 0, a vertex with two in-edges has run init on a
\* message merged from both senders, none of it under its own key, while another
\* vertex, which got no message, does not run
C17_Witness ==
  /\ rphase = "gas" /\ iteration > 0
  /\ \E v \in Vertices : /\ stage[v] = "inited"
                         /\ Cardinality({u \in Vertices : <<u, v>> \in edges}) = 2
                         /\ Cardinality(DOMAIN prog_flow[v]) = 2
                         /\ v \notin DOMAIN prog_flow[v]
  /\ \E v \in Vertices : stage[v] = "wait" /\ ~is_set[v] /\ ~IsEmpty(prog_flow[v])

\* the step is vertex v's apply in the last round the cap allows
FinalApplyStep(v) ==
  /\ rphase = "gas" /\ stage[v] = "inited" /\ stage'[v] = "applied"
  /\ iteration = niters - 1

\* C18: final round and termination of the decomposition run.  Every run stops;
\* a round is the last one exactly when the round count reaches the configured
\* maximum or the round leaves no slot pending, so a run stops after at most
\* niters rounds; an apply of the last round the cap allows adds the vertex's
\* transient flow to its persistent flow key by key, leaves residual and ppr
\* unchanged and clears the transient flow; scatter_edges is NO_EDGES for every
\* vertex that ran in that round; and no slot is pending when the run has
\* stopped.
C18_FinalRoundAndTermination ==
  /\ <>(rphase = "stopped")
  /\ [](rphase = "stopped" => /\ iteration <= niters
                              /\ \A v \in Vertices : ~is_set[v])
  /\ []((rphase = "scatter" /\ iteration = niters - 1)
          => \A v \in Vertices : stage[v] = "applied" => ~scatter_edges(v))
  /\ [][/\ (rphase = "scatter" /\ rphase' # "scatter")
             => /\ iteration' = iteration + 1
                /\ rphase' = "stopped"
                     <=> (iteration' = niters \/ \A v \in Vertices : ~is_set[v])
        /\ \A v \in Vertices :
             FinalApplyStep(v)
               => /\ DOMAIN vflow'[v] = (DOMAIN vflow[v]) \cup (DOMAIN prog_flow[v])
                  /\ \A k \in DOMAIN vflow'[v] :
                       vflow'[v][k] = At(vflow[v], k) + At(prog_flow[v], k)
                  /\ residual' = residual /\ ppr' = ppr
                  /\ prog_flow'[v] = Empty]_vars

\* a run has stopped at the cap after a last round in which a vertex merged a
\* non-empty transient flow into its persistent flow
C18_Witness ==
  /\ rphase = "stopped" /\ iteration = niters
  /\ \E v \in Vertices : ~IsEmpty(vflow[v]) /\ IsEmpty(prog_flow[v])
  /\ \E v \in Vertices : ~IsEmpty(residual[v])

\* the signals the collect_results call of this step makes for the key k of v's
\* residual: the flow-derived message for k carries residual_v[k] under v's id
\* and no second signal goes to k; or k gets the single signal {v: residual_v[k]}
\* and no flow-derived message; or k gets no signal
FoldedOnce(v, k) ==
  /\ k \in DOMAIN sig_log'.flow
  /\ v \in DOMAIN sig_log'.flow[k]
  /\ sig_log'.flow[k][v] = At(Scaled(ppr[v], vflow[v][k]), v) + residual[v][k]
  /\ k \notin DOMAIN sig_log'.residual
ForwardedOnce(v, k) ==
  /\ k \notin DOMAIN sig_log'.flow
  /\ k \in DOMAIN sig_log'.residual
  /\ sig_log'.residual[k] = [j \in {v} |-> residual[v][k]]
NotSignalled(k) == k \notin DOMAIN sig_log'.flow /\ k \notin DOMAIN sig_log'.residual

\* C19: collect_results (with the index loaded) accounts for each residual entry
\* exactly once: for every threshold >= 0 and every key k of v's residual, the
\* entry is folded into the flow-derived message for k when v's flow has a
\* significant entry for k and is then not forwarded a second time, otherwise
\* it is forwarded as the single signal {v: residual_v[k]} if significant;
\* afterwards v's residual is empty and v's ppr and flow are unchanged.
C19_ResidualOnce ==
  [][\A v \in Vertices :
       (CollectResultsStep(v) /\ ~no_index) =>
         /\ \A k \in DOMAIN residual[v] :
              IF k \in DOMAIN vflow[v] /\ vflow[v][k] >= threshold
                THEN FoldedOnce(v, k)
                ELSE IF residual[v][k] >= threshold
                       THEN ForwardedOnce(v, k)
                       ELSE NotSignalled(k)
         /\ residual'[v] = Empty
         /\ ppr'[v] = ppr[v] /\ vflow'[v] = vflow[v]]_vars

\* the vectors the collect_results call of this step signals to v
SignalledFlow(v) == IF v \in DOMAIN sig_log'.flow THEN sig_log'.flow[v] ELSE Empty
SignalledResidual(v) == IF v \in DOMAIN sig_log'.residual THEN sig_log'.residual[v] ELSE Empty

\* C20: the collection round.  Every vector collect_results signals to v, from
\* whichever vertex, is merged key by key into v's slot; in the collection round
\* the program's init takes the slot's content, only on a pending slot, and its
\* apply sets v's ppr to that message when it is not empty and leaves it
\* unchanged when it is empty; no other step of the round changes ppr; flow and
\* residual are unchanged; no slot becomes pending or changes (no signal is
\* emitted); and when the round is over every vertex that got a non-empty
\* merged message has it as its ppr.
C20_CollectionRound ==
  /\ [][\A v \in Vertices :
          /\ (rphase = "collect" /\ transformed' # transformed)
               => /\ is_set'[v] <=> \/ is_set[v]
                                    \/ v \in DOMAIN sig_log'.flow
                                    \/ v \in DOMAIN sig_log'.residual
                  /\ is_set'[v]
                       => /\ DOMAIN functor'[v]
                               = (IF is_set[v] THEN DOMAIN functor[v] ELSE {})
                                   \cup (DOMAIN SignalledFlow(v))
                                   \cup (DOMAIN SignalledResidual(v))
                          /\ \A j \in DOMAIN functor'[v] :
                               functor'[v][j]
                                 = (IF is_set[v] THEN At(functor[v], j) ELSE 0)
                                     + At(SignalledFlow(v), j) + At(SignalledResidual(v), j)
          /\ rphase = "cgas"
               => /\ (stage[v] = "wait" /\ stage'[v] = "inited")
                       => (is_set[v] /\ cppr'[v] = functor[v])
                  /\ (stage[v] = "wait" /\ ~is_set[v]) => stage'[v] = "wait"
                  /\ ppr'[v] = IF stage[v] = "inited" /\ stage'[v] = "applied" /\ ~IsEmpty(cppr[v])
                                 THEN cppr[v] ELSE ppr[v]
                  /\ vflow'[v] = vflow[v] /\ residual'[v] = residual[v]
                  /\ is_set'[v] => is_set[v]
                  /\ functor'[v] = functor[v]]_vars
  /\ [](rphase = "done"
          => \A v \in Vertices :
               /\ ~is_set[v]
               /\ (stage[v] = "applied" /\ ~IsEmpty(functor[v])) => ppr[v] = functor[v])

\* the collection round is over: a vertex got a non-empty message and has it as
\* its ppr, another got an empty message and kept its non-empty ppr, and a
\* third got no signal and did not run
C20_Witness ==
  /\ rphase = "done"
  /\ \E v \in Vertices : stage[v] = "applied" /\ ~IsEmpty(cppr[v]) /\ ppr[v] = cppr[v]
  /\ \E v \in Vertices : stage[v] = "applied" /\ IsEmpty(cppr[v]) /\ ~IsEmpty(ppr[v])
  /\ \E v \in Vertices : stage[v] = "wait"

====
